---- MODULE Spec2Model ----
(***************************************************************************)
(* Model of examples/monitor-shtc3.rs: the sampling / display pipeline.    *)
(*                                                                         *)
(* main spawns the ctrl_c task (the cancellation watcher, which runs on    *)
(* the executor's own thread), prepares the terminal and then awaits       *)
(*     or!(ctrl_c, poll(sender), show(receiver, &mut terminal))            *)
(* on the main thread.  Each poll of the or! future polls its three        *)
(* arguments in the order given and completes with the first one that is   *)
(* ready.  poll and show never suspend except at their Timer; the sensor   *)
(* reads and the draw call block the main thread.  An unwrap() on an Err   *)
(* panics: the process ends with a failure status and the statements after *)
(* the or! are not executed.                                               *)
(*                                                                         *)
(* Timers are untimed here: an armed timer may expire at any moment, so    *)
(* every interleaving of producer and consumer ticks is covered.           *)
(***************************************************************************)
EXTENDS Integers, Sequences, FiniteSets, TLC

\* ---------------------------------------------------------------- bounds
\* Number of cycles the producer runs before it sleeps for good.
MaxCycles == 5
\* Number of key events other than Ctrl-C that the watcher reads.
MaxKeys == 1
\* Capacity of each series (100 in the source, scaled down).
DATA_CAPACITY == 2
\* Granularity of the clock of the timed specification, in ms.
TimeStep == 5

\* ------------------------------------------------------------- constants
\* const UI_REFRESH_DELAY: Duration = Duration::from_millis(25);
UI_REFRESH_DELAY == 25

SensorDelayAsUi == UI_REFRESH_DELAY

\* const SENSOR_REFRESH_DELAY: Duration = Duration::from_millis(50);
SENSOR_REFRESH_DELAY == 50

VARIABLES
    sup,            \* supervisor: "Starting" | "Running" | "Stopping" | "Stopped"
    exit_status,    \* "none" | "success" | "failure"
    ended_by,       \* "none" | "watcher" | "poll" | "show" | "setup"
    turn,           \* where the main thread is: "setup" | "ctrl_c" | "poll" |
                    \* "show" | "parked" | "cleanup" | "halted"
    watcher,        \* the ctrl_c task: "waiting" | "done"
    keys_read,      \* key events the watcher has read and ignored
    last_key,       \* the last key event the watcher has read
    poll_pc,        \* "start" | "read1" | "read2" | "send" | "sleep"
    normal,         \* poll's local `normal`
    lowpwr,         \* poll's local `lowpwr`
    nreads,         \* successful sht.measure calls so far
    poll_timer,     \* "none" | "armed" | "expired"
    chan,           \* the unbounded channel, oldest pair first
    show_pc,        \* "start" | "drain" | "truncate" | "render" | "sleep"
    data,           \* show's local `data`
    show_timer,     \* "none" | "armed" | "expired"
    rendered,       \* the four sequences of the last draw call
    term,           \* results of the two reset calls after the race
    published,      \* history: pairs sent, in order
    drained,        \* history: pairs received by show, in order
    waiting,        \* history: the channel when show's current tick began
    abandoned,      \* history: first reading of a cycle whose second read failed
    started_after,  \* history: cycles begun after the watcher completed
    poll_left,      \* ms until poll's Timer is due
    show_left,      \* ms until show's Timer is due
    chan_closed,    \* the channel is closed (never in Spec: show holds the
                    \* receiver for as long as poll is polled)
    send_failed     \* history: a sender.send returned Err

supv   == <<sup, exit_status, ended_by, turn>>
watchv == <<watcher, keys_read, last_key>>
pollv  == <<poll_pc, normal, lowpwr, nreads, poll_timer>>
showv  == <<show_pc, data, show_timer, rendered>>
histv  == <<published, drained, waiting, abandoned, started_after>>
timev  == <<poll_left, show_left>>
faultv == <<chan_closed, send_failed>>
vars   == <<supv, watchv, pollv, showv, chan, term, histv, timev, faultv>>

\* ------------------------------------------------------------ data types
Series == {"temp_normal", "temp_lowpwr", "humi_normal", "humi_lowpwr"}

Min(a, b) == IF a < b THEN a ELSE b

\* Placeholder for a local that holds no measurement yet.
NoMeasurement == [temperature |-> 0 - 1, humidity |-> 0 - 1]

\* The k-th successful sensor read: a fresh temperature (millidegrees) and a
\* fresh humidity (millipercent), distinct from every other reading.
Measure(k) == [temperature |-> k, humidity |-> 100 + k]

\* The scalar of a sample pair that show pushes into a series.
Proj(s, p) ==
    CASE s = "temp_normal" -> p[1].temperature
      [] s = "temp_lowpwr" -> p[2].temperature
      [] s = "humi_normal" -> p[1].humidity
      [] s = "humi_lowpwr" -> p[2].humidity

\* Data::new(capacity)
DataNew(capacity) ==
    [capacity |-> capacity,
     temp_normal |-> <<>>, temp_lowpwr |-> <<>>,
     humi_normal |-> <<>>, humi_lowpwr |-> <<>>]

PushBack(q, v) == Append(q, v)

\* VecDeque::push_front
PushFront(q, v) == <<v>> \o q

TruncateFront(q, len) ==
    SubSeq(q, Len(q) - Min(len, Len(q)) + 1, Len(q))

TruncateOffByOne(q, len) == SubSeq(q, 1, Min(len + 1, Len(q)))

\* VecDeque::truncate: keeps the first len elements
Truncate(q, len) == SubSeq(q, 1, Min(len, Len(q)))

DataTruncateMissesOne(d) ==
    [d EXCEPT !.temp_normal = Truncate(@, d.capacity),
              !.temp_lowpwr = Truncate(@, d.capacity),
              !.humi_normal = Truncate(@, d.capacity)]

\* Data::truncate
DataTruncate(d) ==
    [d EXCEPT !.temp_normal = Truncate(@, d.capacity),
              !.temp_lowpwr = Truncate(@, d.capacity),
              !.humi_normal = Truncate(@, d.capacity),
              !.humi_lowpwr = Truncate(@, d.capacity)]

\* The body of show's for loop for one received pair.
DataPush(d, p) ==
    [d EXCEPT !.temp_normal = PushFront(@, Proj("temp_normal", p)),
              !.temp_lowpwr = PushFront(@, Proj("temp_lowpwr", p)),
              !.humi_normal = PushFront(@, Proj("humi_normal", p)),
              !.humi_lowpwr = PushFront(@, Proj("humi_lowpwr", p))]

\* receiver.try_recv() iterated by `for`: a Result yields its Ok value once,
\* or nothing when the channel is empty.
TryRecv(c) == IF c = <<>> THEN <<>> ELSE <<Head(c)>>

\* (*x as f64) / 1000.0, kept exact as whole units and thousandths.
Scaled(x) == [units |-> x \div 1000, thousandths |-> x % 1000]

PointsNoRev(q) == [i \in 1..Len(q) |-> <<i - 1, Scaled(q[i])>>]

\* q.iter().rev().enumerate().map(|(i, x)| (i as f64, (*x as f64) / 1000.0))
Points(q) == [i \in 1..Len(q) |-> <<i - 1, Scaled(q[Len(q) + 1 - i])>>]

\* The four sequences render hands to the two charts.
Frame(d) == [s \in Series |-> Points(d[s])]

TaskReadyNever(w) == FALSE

\* JoinHandle of the ctrl_c task as polled by or!
TaskReady(w) == w = "done"

\* ------------------------------------------------------- control helpers
PanicRetry(who) ==
    /\ ended_by' = who
    /\ UNCHANGED <<sup, exit_status, turn>>

PanicSwallowed(who) ==
    /\ sup' = "Stopped"
    /\ exit_status' = "success"
    /\ ended_by' = who
    /\ turn' = "halted"

\* unwrap() on an Err: the main thread panics and the process ends.
Panic(who) ==
    /\ sup' = "Stopped"
    /\ exit_status' = "failure"
    /\ ended_by' = who
    /\ turn' = "halted"

RaceDoneOrphan(who) ==
    /\ sup' = "Stopping"
    /\ ended_by' = who
    /\ turn' = "poll"
    /\ UNCHANGED exit_status

\* or! returns: the remaining futures are never polled again.
RaceDone(who) ==
    /\ sup' = "Stopping"
    /\ ended_by' = who
    /\ turn' = "cleanup"
    /\ UNCHANGED exit_status

Continue(t) ==
    /\ turn' = t
    /\ UNCHANGED <<sup, exit_status, ended_by>>

\* A loop begins a cycle; counted once the watcher has completed.
Bump(who) ==
    IF watcher = "done"
    THEN [started_after EXCEPT ![who] = Min(@ + 1, 2)]
    ELSE started_after

\* Every pair of c pushed into d, oldest first.
RECURSIVE DataPushAll(_, _)
DataPushAll(d, c) ==
    IF c = <<>> THEN d ELSE DataPushAll(DataPush(d, Head(c)), Tail(c))

\* ------------------------------------------------------------------ Init
Init ==
    /\ sup = "Starting"
    /\ exit_status = "none"
    /\ ended_by = "none"
    /\ turn = "setup"
    /\ watcher = "waiting"
    /\ keys_read = 0
    /\ last_key = "none"
    /\ poll_pc = "start"
    /\ normal = NoMeasurement
    /\ lowpwr = NoMeasurement
    /\ nreads = 0
    /\ poll_timer = "none"
    /\ chan = <<>>
    /\ show_pc = "start"
    /\ data = DataNew(DATA_CAPACITY)
    /\ show_timer = "none"
    /\ rendered = Frame(DataNew(DATA_CAPACITY))
    /\ term = [clear |-> "none", show_cursor |-> "none"]
    /\ published = <<>>
    /\ drained = <<>>
    /\ waiting = <<>>
    /\ abandoned = NoMeasurement
    /\ started_after = [poll |-> 0, show |-> 0]
    /\ poll_left = 0
    /\ show_left = 0
    /\ chan_closed = FALSE
    /\ send_failed = FALSE

\* --------------------------------------------------------------- watcher
WatcherKeyAnyKey ==
    /\ watcher = "waiting"
    /\ sup # "Stopped"
    /\ \E k \in {"ctrl_c", "other", "error", "eof"} :
          /\ last_key' = k
          /\ IF k \in {"ctrl_c", "other", "eof"}
             THEN watcher' = "done" /\ UNCHANGED keys_read
             ELSE /\ keys_read < MaxKeys
                  /\ keys_read' = keys_read + 1
                  /\ UNCHANGED watcher
    /\ UNCHANGED <<supv, pollv, showv, chan, term, histv>>
    /\ UNCHANGED <<timev, faultv>>

\* for key in io::stdin().keys() { if let Ok(Key::Ctrl('c')) = key { break } }
WatcherKey ==
    /\ watcher = "waiting"
    /\ sup # "Stopped"
    /\ \E k \in {"ctrl_c", "other", "error", "eof"} :
          /\ last_key' = k
          /\ IF k \in {"ctrl_c", "eof"}
             THEN watcher' = "done" /\ UNCHANGED keys_read
             ELSE /\ keys_read < MaxKeys
                  /\ keys_read' = keys_read + 1
                  /\ UNCHANGED watcher
    /\ UNCHANGED <<supv, pollv, showv, chan, term, histv>>
    /\ UNCHANGED <<timev, faultv>>

\* ------------------------------------------------------------------ main
\* into_raw_mode, Terminal::new, clear, hide_cursor (each unwrapped), channel
MainSetup ==
    /\ turn = "setup"
    /\ \E ok \in BOOLEAN :
          IF ok
          THEN /\ sup' = "Running"
               /\ turn' = "ctrl_c"
               /\ UNCHANGED <<exit_status, ended_by>>
          ELSE Panic("setup")
    /\ UNCHANGED <<watchv, pollv, showv, chan, term, histv>>
    /\ UNCHANGED <<timev, faultv>>

\* The parked main thread is woken by a timer or by the finished ctrl_c task.
Wake ==
    /\ turn = "parked"
    /\ \/ poll_timer = "expired"
       \/ show_timer = "expired"
       \/ TaskReady(watcher)
    /\ Continue("ctrl_c")
    /\ UNCHANGED <<watchv, pollv, showv, chan, term, histv>>
    /\ UNCHANGED <<timev, faultv>>

RacePollCtrlCSkipped ==
    /\ turn = "ctrl_c"
    /\ Continue("poll")
    /\ UNCHANGED <<watchv, pollv, showv, chan, term, histv>>
    /\ UNCHANGED <<timev, faultv>>

\* or! polls its first argument, the ctrl_c task.
RacePollCtrlC ==
    /\ turn = "ctrl_c"
    /\ IF TaskReady(watcher) THEN RaceDone("watcher") ELSE Continue("poll")
    /\ UNCHANGED <<watchv, pollv, showv, chan, term, histv>>
    /\ UNCHANGED <<timev, faultv>>

\* let _ = terminal.clear();
TerminalClear ==
    /\ sup = "Stopping"
    /\ term.clear = "none"
    /\ \E r \in {"ok", "err"} : term' = [term EXCEPT !.clear = r]
    /\ UNCHANGED <<supv, watchv, pollv, showv, chan, histv>>
    /\ UNCHANGED <<timev, faultv>>

\* let _ = terminal.show_cursor();
TerminalShowCursor ==
    /\ sup = "Stopping"
    /\ term.clear # "none"
    /\ term.show_cursor = "none"
    /\ \E r \in {"ok", "err"} : term' = [term EXCEPT !.show_cursor = r]
    /\ UNCHANGED <<supv, watchv, pollv, showv, chan, histv>>
    /\ UNCHANGED <<timev, faultv>>

MainExitEscalates ==
    /\ sup = "Stopping"
    /\ term.show_cursor # "none"
    /\ sup' = "Stopped"
    /\ exit_status' = IF term.clear = "err" \/ term.show_cursor = "err"
                      THEN "failure" ELSE "success"
    /\ turn' = "halted"
    /\ UNCHANGED <<ended_by, watchv, pollv, showv, chan, term, histv>>
    /\ UNCHANGED <<timev, faultv>>

\* block_on returns and main ends.
MainExit ==
    /\ sup = "Stopping"
    /\ term.show_cursor # "none"
    /\ sup' = "Stopped"
    /\ exit_status' = "success"
    /\ turn' = "halted"
    /\ UNCHANGED <<ended_by, watchv, pollv, showv, chan, term, histv>>
    /\ UNCHANGED <<timev, faultv>>

\* ---------------------------------------------------------------- timers
PollTimerExpire ==
    /\ sup = "Running"
    /\ poll_timer = "armed"
    /\ nreads < 2 * MaxCycles
    /\ poll_timer' = "expired"
    /\ UNCHANGED <<supv, watchv, poll_pc, normal, lowpwr, nreads,
                   showv, chan, term, histv>>
    /\ poll_left' = 0
    /\ UNCHANGED <<show_left, faultv>>

ShowTimerExpire ==
    /\ sup = "Running"
    /\ show_timer = "armed"
    /\ show_timer' = "expired"
    /\ UNCHANGED <<supv, watchv, pollv, show_pc, data, rendered,
                   chan, term, histv>>
    /\ show_left' = 0
    /\ UNCHANGED <<poll_left, faultv>>

\* ------------------------------------------------------------------ poll
\* First poll of poll(sender): I2cdev::new(DEVICE).unwrap(), then the loop.
PollInit ==
    /\ turn = "poll"
    /\ poll_pc = "start"
    /\ \E ok \in BOOLEAN :
          IF ok
          THEN /\ poll_pc' = "read1"
               /\ started_after' = Bump("poll")
               /\ UNCHANGED supv
          ELSE /\ Panic("poll")
               /\ UNCHANGED <<poll_pc, started_after>>
    /\ UNCHANGED <<watchv, normal, lowpwr, nreads, poll_timer, showv, chan,
                   term, published, drained, waiting, abandoned>>
    /\ UNCHANGED <<timev, faultv>>

\* let normal = sht.measure(PowerMode::NormalMode, &mut delay).unwrap();
PollMeasureNormal ==
    /\ turn = "poll"
    /\ poll_pc = "read1"
    /\ \E ok \in BOOLEAN :
          IF ok
          THEN /\ nreads' = nreads + 1
               /\ normal' = Measure(nreads + 1)
               /\ poll_pc' = "read2"
               /\ UNCHANGED supv
          ELSE /\ Panic("poll")
               /\ UNCHANGED <<nreads, normal, poll_pc>>
    /\ UNCHANGED <<watchv, lowpwr, poll_timer, showv, chan, term, histv>>
    /\ UNCHANGED <<timev, faultv>>

PollMeasureLowpwrPartial ==
    /\ turn = "poll"
    /\ poll_pc = "read2"
    /\ \E ok \in BOOLEAN :
          IF ok
          THEN /\ nreads' = nreads + 1
               /\ lowpwr' = Measure(nreads + 1)
               /\ poll_pc' = "send"
               /\ UNCHANGED <<supv, abandoned, chan, published>>
          ELSE /\ Panic("poll")
               /\ abandoned' = normal
               /\ chan' = Append(chan, <<normal, normal>>)
               /\ published' = Append(published, <<normal, normal>>)
               /\ UNCHANGED <<nreads, lowpwr, poll_pc>>
    /\ UNCHANGED <<watchv, normal, poll_timer, showv, term,
                   drained, waiting, started_after>>
    /\ UNCHANGED <<timev, faultv>>

\* let lowpwr = sht.measure(PowerMode::LowPower, &mut delay).unwrap();
PollMeasureLowpwr ==
    /\ turn = "poll"
    /\ poll_pc = "read2"
    /\ \E ok \in BOOLEAN :
          IF ok
          THEN /\ nreads' = nreads + 1
               /\ lowpwr' = Measure(nreads + 1)
               /\ poll_pc' = "send"
               /\ UNCHANGED <<supv, abandoned>>
          ELSE /\ Panic("poll")
               /\ abandoned' = normal
               /\ UNCHANGED <<nreads, lowpwr, poll_pc>>
    /\ UNCHANGED <<watchv, normal, poll_timer, showv, chan, term,
                   published, drained, waiting, started_after>>
    /\ UNCHANGED <<timev, faultv>>

PollSendThenReturn ==
    /\ turn = "poll"
    /\ poll_pc = "send"
    /\ chan' = Append(chan, <<normal, lowpwr>>)
    /\ published' = Append(published, <<normal, lowpwr>>)
    /\ poll_pc' = "sleep"
    /\ RaceDone("poll")
    /\ UNCHANGED <<watchv, normal, lowpwr, nreads, poll_timer, showv, term,
                   drained, waiting, abandoned, started_after>>
    /\ UNCHANGED <<timev, faultv>>

PollSendFatal ==
    /\ turn = "poll"
    /\ poll_pc = "send"
    /\ IF chan_closed
       THEN /\ send_failed' = TRUE
            /\ Panic("poll")
            /\ UNCHANGED <<chan, published, poll_timer, poll_left, poll_pc>>
       ELSE /\ chan' = Append(chan, <<normal, lowpwr>>)
            /\ published' = Append(published, <<normal, lowpwr>>)
            /\ poll_timer' = "armed"
            /\ poll_left' = SENSOR_REFRESH_DELAY
            /\ poll_pc' = "sleep"
            /\ Continue("show")
            /\ UNCHANGED send_failed
    /\ UNCHANGED <<watchv, normal, lowpwr, nreads, showv, term,
                   drained, waiting, abandoned, started_after>>
    /\ UNCHANGED <<show_left, chan_closed>>

PollSendBounded ==
    /\ turn = "poll"
    /\ poll_pc = "send"
    /\ Len(chan) < 1
    /\ chan' = Append(chan, <<normal, lowpwr>>)
    /\ published' = Append(published, <<normal, lowpwr>>)
    /\ poll_timer' = "armed"
    /\ poll_left' = SENSOR_REFRESH_DELAY
    /\ poll_pc' = "sleep"
    /\ Continue("show")
    /\ UNCHANGED <<watchv, normal, lowpwr, nreads, showv, term,
                   drained, waiting, abandoned, started_after>>
    /\ UNCHANGED <<show_left, faultv>>

\* let _ = sender.send((normal, lowpwr)).await; then Timer::after(50 ms),
\* which is pending when first polled, so or! goes on to show.  The channel
\* is unbounded, so send never waits; its Err (channel closed) is discarded
\* by `let _ =` and the pair is lost.
PollSend ==
    /\ turn = "poll"
    /\ poll_pc = "send"
    /\ IF chan_closed
       THEN /\ send_failed' = TRUE
            /\ UNCHANGED <<chan, published>>
       ELSE /\ chan' = Append(chan, <<normal, lowpwr>>)
            /\ published' = Append(published, <<normal, lowpwr>>)
            /\ UNCHANGED send_failed
    /\ poll_timer' = "armed"
    /\ poll_left' = SENSOR_REFRESH_DELAY
    /\ poll_pc' = "sleep"
    /\ Continue("show")
    /\ UNCHANGED <<watchv, normal, lowpwr, nreads, showv, term,
                   drained, waiting, abandoned, started_after>>
    /\ UNCHANGED <<show_left, chan_closed>>

\* poll is polled while its timer has not expired: Pending.
PollTimerPending ==
    /\ turn = "poll"
    /\ poll_pc = "sleep"
    /\ poll_timer = "armed"
    /\ Continue("show")
    /\ UNCHANGED <<watchv, pollv, showv, chan, term, histv>>
    /\ UNCHANGED <<timev, faultv>>

\* poll is polled after its timer expired: the loop starts the next cycle.
PollTimerReady ==
    /\ turn = "poll"
    /\ poll_pc = "sleep"
    /\ poll_timer = "expired"
    /\ poll_timer' = "none"
    /\ poll_pc' = "read1"
    /\ started_after' = Bump("poll")
    /\ UNCHANGED <<supv, watchv, normal, lowpwr, nreads, showv, chan, term,
                   published, drained, waiting, abandoned>>
    /\ UNCHANGED <<timev, faultv>>

\* ------------------------------------------------------------------ show
\* First poll of show(receiver, terminal): Data::new(DATA_CAPACITY), then
\* the loop.
ShowInit ==
    /\ turn = "show"
    /\ show_pc = "start"
    /\ data' = DataNew(DATA_CAPACITY)
    /\ show_pc' = "drain"
    /\ waiting' = chan
    /\ started_after' = Bump("show")
    /\ UNCHANGED <<supv, watchv, pollv, show_timer, rendered, chan, term,
                   published, drained, abandoned>>
    /\ UNCHANGED <<timev, faultv>>

ShowDrainAll ==
    /\ turn = "show"
    /\ show_pc = "drain"
    /\ chan' = <<>>
    /\ data' = DataPushAll(data, chan)
    /\ drained' = drained \o chan
    /\ show_pc' = "truncate"
    /\ UNCHANGED <<supv, watchv, pollv, show_timer, rendered, term,
                   published, waiting, abandoned, started_after>>
    /\ UNCHANGED <<timev, faultv>>

\* for (normal, lowpwr) in receiver.try_recv() { push_front x 4 }
ShowDrain ==
    /\ turn = "show"
    /\ show_pc = "drain"
    /\ LET got == TryRecv(chan) IN
          /\ chan' = IF got = <<>> THEN chan ELSE Tail(chan)
          /\ data' = IF got = <<>> THEN data ELSE DataPush(data, got[1])
          /\ drained' = drained \o got
    /\ show_pc' = "truncate"
    /\ UNCHANGED <<supv, watchv, pollv, show_timer, rendered, term,
                   published, waiting, abandoned, started_after>>
    /\ UNCHANGED <<timev, faultv>>

\* data.truncate();
ShowTruncate ==
    /\ turn = "show"
    /\ show_pc = "truncate"
    /\ data' = DataTruncate(data)
    /\ show_pc' = "render"
    /\ UNCHANGED <<supv, watchv, pollv, show_timer, rendered, chan, term,
                   histv>>
    /\ UNCHANGED <<timev, faultv>>

\* render(terminal, &data): terminal.draw(..).unwrap(); then
\* Timer::after(25 ms), pending when first polled, so or! returns Pending.
ShowRender ==
    /\ turn = "show"
    /\ show_pc = "render"
    /\ \E ok \in BOOLEAN :
          IF ok
          THEN /\ rendered' = Frame(data)
               /\ show_timer' = "armed"
               /\ show_left' = UI_REFRESH_DELAY
               /\ show_pc' = "sleep"
               /\ Continue("parked")
          ELSE /\ Panic("show")
               /\ UNCHANGED <<rendered, show_timer, show_left, show_pc>>
    /\ UNCHANGED <<watchv, pollv, data, chan, term, histv>>
    /\ UNCHANGED <<poll_left, faultv>>

\* show is polled while its timer has not expired: Pending.
ShowTimerPending ==
    /\ turn = "show"
    /\ show_pc = "sleep"
    /\ show_timer = "armed"
    /\ Continue("parked")
    /\ UNCHANGED <<watchv, pollv, showv, chan, term, histv>>
    /\ UNCHANGED <<timev, faultv>>

\* show is polled after its timer expired: the loop starts the next tick.
ShowTimerReady ==
    /\ turn = "show"
    /\ show_pc = "sleep"
    /\ show_timer = "expired"
    /\ show_timer' = "none"
    /\ show_pc' = "drain"
    /\ waiting' = chan
    /\ started_after' = Bump("show")
    /\ UNCHANGED <<supv, watchv, pollv, data, rendered, chan, term,
                   published, drained, abandoned>>
    /\ UNCHANGED <<timev, faultv>>

\* ------------------------------------------------------- timed timers
Max(a, b) == IF a > b THEN a ELSE b

\* Time passes while the main thread is parked with nothing to wake it, or
\* while it is inside poll's or show's synchronous code (the sensor reads
\* and the draw call block); waking and polling a pending Timer take no time.
TimePasses ==
    \/ /\ turn = "parked"
       /\ poll_timer # "expired"
       /\ show_timer # "expired"
       /\ ~TaskReady(watcher)
    \/ turn = "poll" /\ poll_pc \in {"start", "read1", "read2", "send"}
    \/ turn = "show" /\ show_pc \in {"start", "drain", "truncate", "render"}

PollCounting == poll_timer = "armed" /\ nreads < 2 * MaxCycles
ShowCounting == show_timer = "armed"

\* The clock advances by TimeStep: Timer::after(d) is due d ms after it was
\* created.
Tick ==
    /\ sup = "Running"
    /\ TimePasses
    /\ PollCounting \/ ShowCounting
    /\ poll_left' = IF PollCounting THEN Max(poll_left - TimeStep, 0)
                    ELSE poll_left
    /\ show_left' = IF ShowCounting THEN Max(show_left - TimeStep, 0)
                    ELSE show_left
    /\ poll_timer' = IF PollCounting /\ poll_left' = 0 THEN "expired"
                     ELSE poll_timer
    /\ show_timer' = IF ShowCounting /\ show_left' = 0 THEN "expired"
                     ELSE show_timer
    /\ UNCHANGED <<supv, watchv, poll_pc, normal, lowpwr, nreads,
                   show_pc, data, rendered, chan, term, histv, faultv>>

\* ----------------------------------------------------------------- fault
\* The channel becomes closed while the producer is running.
ChannelClose ==
    /\ sup = "Running"
    /\ ~chan_closed
    /\ chan_closed' = TRUE
    /\ UNCHANGED <<supv, watchv, pollv, showv, chan, term, histv, timev,
                   send_failed>>

\* --------------------------------------------------------- specification
Next ==
    \/ WatcherKey
    \/ MainSetup
    \/ Wake
    \/ RacePollCtrlC
    \/ TerminalClear
    \/ TerminalShowCursor
    \/ MainExit
    \/ PollTimerExpire
    \/ ShowTimerExpire
    \/ PollInit
    \/ PollMeasureNormal
    \/ PollMeasureLowpwr
    \/ PollSend
    \/ PollTimerPending
    \/ PollTimerReady
    \/ ShowInit
    \/ ShowDrain
    \/ ShowTruncate
    \/ ShowRender
    \/ ShowTimerPending
    \/ ShowTimerReady

Spec == Init /\ [][Next]_vars

\* The steps of the main thread: it is never stopped for good.
MainThread ==
    \/ MainSetup
    \/ Wake
    \/ RacePollCtrlC
    \/ TerminalClear
    \/ TerminalShowCursor
    \/ MainExit
    \/ PollInit
    \/ PollMeasureNormal
    \/ PollMeasureLowpwr
    \/ PollSend
    \/ PollTimerPending
    \/ PollTimerReady
    \/ ShowInit
    \/ ShowDrain
    \/ ShowTruncate
    \/ ShowRender
    \/ ShowTimerPending
    \/ ShowTimerReady

\* Fair scheduling: the main thread runs whenever it can, and every sensor
\* read and draw call returns.
FairSpec == Spec /\ WF_vars(MainThread)

\* The pipeline with a channel that may be closed under the producer.
NextChanFault == Next \/ ChannelClose

SpecChanFault == Init /\ [][NextChanFault]_vars

\* The pipeline with the configured delays and a clock.
NextTimed ==
    \/ WatcherKey
    \/ MainSetup
    \/ Wake
    \/ RacePollCtrlC
    \/ TerminalClear
    \/ TerminalShowCursor
    \/ MainExit
    \/ Tick
    \/ PollInit
    \/ PollMeasureNormal
    \/ PollMeasureLowpwr
    \/ PollSend
    \/ PollTimerPending
    \/ PollTimerReady
    \/ ShowInit
    \/ ShowDrain
    \/ ShowTruncate
    \/ ShowRender
    \/ ShowTimerPending
    \/ ShowTimerReady

SpecTimed == Init /\ [][NextTimed]_vars

TypeOK ==
    /\ sup \in {"Starting", "Running", "Stopping", "Stopped"}
    /\ exit_status \in {"none", "success", "failure"}
    /\ ended_by \in {"none", "watcher", "poll", "show", "setup"}
    /\ turn \in {"setup", "ctrl_c", "poll", "show", "parked", "cleanup", "halted"}
    /\ watcher \in {"waiting", "done"}
    /\ keys_read \in 0..MaxKeys
    /\ poll_pc \in {"start", "read1", "read2", "send", "sleep"}
    /\ show_pc \in {"start", "drain", "truncate", "render", "sleep"}
    /\ poll_timer \in {"none", "armed", "expired"}
    /\ show_timer \in {"none", "armed", "expired"}
    /\ Len(published) <= MaxCycles
    /\ Len(chan) <= Len(published)

\* ---------------------------------------------------------------- claims
\* The values pushed into series s so far, newest first.
NewestFirst(s) ==
    [i \in 1..Len(drained) |-> Proj(s, drained[Len(drained) + 1 - i])]

\* Steps of the pipeline, recognised by what they change.
ReadStep    == nreads' # nreads
PublishStep == published' # published
PushStep    == drained' # drained
RenderStep  == show_pc = "render" /\ show_pc' = "sleep"
NewCycleStep ==
    \/ poll_pc # "read1" /\ poll_pc' = "read1"
    \/ show_pc # "drain" /\ show_pc' = "drain"

\* C1: a ring-buffer push is show's push_front followed by Data::truncate.
\* Outside the window between the two, every series holds at most capacity
\* values, and they are exactly the min(N, capacity) most recently pushed
\* values, newest first (capacity 2, pushes 1,3,5 give <<5,3>>).
C1_BoundedGrowth ==
    show_pc # "truncate" =>
        \A s \in Series :
            /\ Len(data[s]) <= data.capacity
            /\ data[s] = SubSeq(NewestFirst(s), 1,
                                Min(data.capacity, Len(drained)))

\* C1 witness: more pairs than the capacity have been pushed and truncated.
C1_Witness ==
    /\ show_pc = "render"
    /\ Len(drained) > data.capacity
    /\ Len(data.temp_normal) = data.capacity

\* C2: when the Renderer is about to be called, no pair that was waiting in
\* the channel when the tick began is still in the channel, and each of
\* them has been pushed into the buffers.
C2_DrainsAllWaiting ==
    show_pc = "render" =>
        \A k \in 1..Len(waiting) :
            /\ \A j \in 1..Len(chan) : chan[j] # waiting[k]
            /\ \E j \in 1..Len(drained) : drained[j] = waiting[k]

\* The position in the publication order of the pair that gave value v to
\* series s.
PubIndex(s, v) ==
    CHOOSE k \in 1..Len(published) : Proj(s, published[k]) = v

\* C3: in every series every value comes from a published pair, and a value
\* nearer the head comes from a pair published later.
C3_FifoPreserved ==
    \A s \in Series :
        /\ \A i \in 1..Len(data[s]) :
              \E k \in 1..Len(published) : Proj(s, published[k]) = data[s][i]
        /\ \A i, j \in 1..Len(data[s]) :
              i < j => PubIndex(s, data[s][i]) > PubIndex(s, data[s][j])

\* C3 witness: a buffer holds values of two pairs that were in the channel
\* together.
C3_Witness ==
    /\ Len(data.temp_normal) >= 2
    /\ Len(waiting) >= 2
    /\ show_pc = "render"

\* C4: once the second read of a cycle has failed, the first reading of
\* that cycle is in no pair of the channel and in no series.
C4_CycleAtomic ==
    abandoned # NoMeasurement =>
        /\ \A j \in 1..Len(chan) :
              chan[j][1] # abandoned /\ chan[j][2] # abandoned
        /\ \A i \in 1..Len(data.temp_normal) :
              data.temp_normal[i] # abandoned.temperature
        /\ \A i \in 1..Len(data.temp_lowpwr) :
              data.temp_lowpwr[i] # abandoned.temperature
        /\ \A i \in 1..Len(data.humi_normal) :
              data.humi_normal[i] # abandoned.humidity
        /\ \A i \in 1..Len(data.humi_lowpwr) :
              data.humi_lowpwr[i] # abandoned.humidity

\* C4 witness: a second read failed after earlier cycles were displayed.
C4_Witness ==
    /\ abandoned # NoMeasurement
    /\ Len(drained) >= 1
    /\ sup = "Stopped"

\* A poll of the race made after the watcher completed ends the race.
StopsAtNextPoll ==
    (turn = "ctrl_c" /\ watcher = "done" /\ turn' # turn) => sup' = "Stopping"

\* C5 as stated: once the watcher has completed, the next poll of the race
\* ends it, and until then neither loop begins a cycle.
C5_NoNewCycleAfterFire ==
    [][StopsAtNextPoll
       /\ ((watcher = "done" /\ sup = "Running") => ~NewCycleStep)]_vars

\* C5 amended: once the watcher has completed, the next poll of the race
\* ends it, and until then each loop begins at most one cycle.
C5_AtMostOneCycleAfterFire ==
    [][StopsAtNextPoll
       /\ started_after'.poll <= 1 /\ started_after'.show <= 1]_vars

\* C5 witness: the watcher completed in the middle of a poll round, both
\* loops began a cycle, and the race ended at its next poll.
C5_Witness ==
    /\ sup = "Stopping"
    /\ ended_by = "watcher"
    /\ started_after.poll = 1
    /\ started_after.show = 1

\* C6: once the supervisor has left Running, no step reads the sensor,
\* publishes, pushes into a series or calls the Renderer.
C6_NoOrphans ==
    [][(sup \in {"Stopping", "Stopped"}) =>
            ~(ReadStep \/ PublishStep \/ PushStep \/ RenderStep)]_vars

\* C6 witness: the pipeline ran and was then stopped by the watcher.
C6_Witness ==
    /\ sup = "Stopped"
    /\ ended_by = "watcher"
    /\ Len(drained) >= 1
    /\ chan # <<>>

\* C7: whenever the process has exited after the race was ended by the
\* watcher or by an error of poll or show, both reset calls were attempted.
C7_CleanupBeforeExit ==
    (sup = "Stopped" /\ ended_by \in {"watcher", "poll", "show"}) =>
        /\ term.clear # "none"
        /\ term.show_cursor # "none"

\* C8: at exit the status is success exactly when the watcher ended the
\* race, and failure when an error of poll or show ended it.
C8_ExitStatus ==
    sup = "Stopped" =>
        /\ exit_status \in {"success", "failure"}
        /\ (exit_status = "success" <=> ended_by = "watcher")
        /\ (ended_by \in {"poll", "show"} => exit_status = "failure")

\* C8 witness: a draw error ended the process after data was displayed.
C8_Witness ==
    /\ sup = "Stopped"
    /\ ended_by = "show"
    /\ exit_status = "failure"
    /\ Len(drained) >= 1

\* C9: unless an error occurred, the supervisor has left Running only
\* because the watcher completed; poll and show did not return.
C9_OnlyWatcherReturns ==
    (sup \in {"Stopping", "Stopped"} /\ exit_status # "failure") =>
        /\ ended_by = "watcher"
        /\ watcher = "done"

\* C9 witness: every cycle of the producer ran without error and the
\* process only ended when the watcher completed.
C9_Witness ==
    /\ sup = "Stopped"
    /\ exit_status = "success"
    /\ Len(published) = MaxCycles
    /\ Len(drained) = MaxCycles

\* C10: after an error of poll or show, no step reads the sensor, publishes
\* or calls the Renderer.
C10_ErrorsFatal ==
    [][(ended_by \in {"poll", "show"}) =>
            ~(ReadStep \/ PublishStep \/ RenderStep)]_vars

\* C10 witness: a sensor read failed while a pair was still in the channel
\* and the consumer's timer had expired.
C10_Witness ==
    /\ ended_by = "poll"
    /\ sup = "Stopped"
    /\ chan # <<>>
    /\ show_timer = "expired"

\* A sender.send returns Err in this step.
SendFails == ~send_failed /\ send_failed'

\* The failing send ends the pipeline, and no sensor read follows it.
PublishErrorFatal ==
    /\ SendFails => sup' # "Running"
    /\ send_failed => ~ReadStep

\* C11 as stated: a publish on a closed channel is fatal: the supervisor
\* leaves Running and the producer reads the sensor no more.
C11_PublishErrorFatal == [][PublishErrorFatal]_vars

\* The failing send changes nothing but the producer's position: the pair
\* is dropped, the timer is armed and the supervisor stays Running.
PublishErrorIgnored ==
    SendFails =>
        /\ sup' = "Running"
        /\ ended_by' = ended_by
        /\ chan' = chan
        /\ poll_pc' = "sleep"
        /\ poll_timer' = "armed"

\* C11 amended: a publish on a closed channel is ignored: the pair is
\* dropped, the producer goes to its sleep and the supervisor stays Running.
C11_PublishErrorIgnored == [][PublishErrorIgnored]_vars

\* C11 witness: after a failed publish the producer sampled a further pair
\* and is about to publish it.
C11_Witness ==
    /\ send_failed
    /\ sup = "Running"
    /\ poll_pc = "send"

\* C12: a failed clear does not stop show_cursor from being attempted, a
\* failed show_cursor does not stop the exit, and the exit after the reset
\* is a success whatever the two calls returned.
C12_CleanupSwallowed ==
    /\ (sup = "Stopping" /\ term.clear = "err" /\ term.show_cursor = "none")
           => ENABLED TerminalShowCursor
    /\ (sup = "Stopping" /\ term.show_cursor # "none") => ENABLED MainExit
    /\ (sup = "Stopped" /\ term.clear # "none")
           => (exit_status = "success" /\ term.show_cursor # "none")

\* C12 witness: both reset calls failed and the process exited.
C12_Witness ==
    /\ sup = "Stopped"
    /\ term.clear = "err"
    /\ term.show_cursor = "err"
    /\ exit_status = "success"

\* No loop begins a cycle once the watcher has completed.
NoCycleAfterInterrupt == (watcher = "done") => ~NewCycleStep

\* C13 as stated: after the interrupt the supervisor eventually reaches
\* Stopped, and the loops only finish the tick they were in.
C13_StopsWithinCurrentTick ==
    /\ (watcher = "done") ~> (sup = "Stopped")
    /\ [][NoCycleAfterInterrupt]_vars

\* C13 amended: after the interrupt the supervisor eventually reaches
\* Stopped, and before that each loop begins at most one more cycle.
C13_StopsEventually ==
    /\ (watcher = "done") ~> (sup = "Stopped")
    /\ [](started_after.poll <= 1 /\ started_after.show <= 1)

\* C13 witness: the interrupt came while the producer was in a cycle, the
\* consumer began one more tick, and the process reached Stopped.
C13_Witness ==
    /\ sup = "Stopped"
    /\ ended_by = "watcher"
    /\ started_after.poll = 0
    /\ started_after.show = 1
    /\ Len(published) >= 2

\* C14: whenever the producer has its pair and is at the publish step, the
\* step can be taken, whatever the channel holds and wherever the consumer
\* is.
C14_NoBackpressure == (poll_pc = "send") => ENABLED PollSend

\* C14 witness: the producer is about to publish while two pairs are queued.
C14_Witness ==
    /\ poll_pc = "send"
    /\ Len(chan) >= 2

\* C15: when the Renderer is about to be called and a pair has been
\* drained, the head of every series is the scalar of the last drained pair.
C15_HeadIsNewest ==
    (show_pc = "render" /\ Len(drained) >= 1 /\ data.capacity >= 1) =>
        \A s \in Series :
            /\ Len(data[s]) >= 1
            /\ data[s][1] = Proj(s, drained[Len(drained)])

\* C15 witness: the Renderer is about to be called after older values were
\* evicted.
C15_Witness ==
    /\ show_pc = "render"
    /\ Len(drained) > data.capacity
    /\ chan # <<>>

\* The number of values a series retains.
Retained == Min(data.capacity, Len(drained))

\* C16: after a draw call, each rendered sequence has the points 0..len-1
\* and point i carries the scaled scalar of the (i+1)-th oldest retained
\* pair, so the last point is the head of the buffer.
C16_RenderedOldestFirst ==
    show_pc = "sleep" =>
        \A s \in Series :
            /\ Len(rendered[s]) = Retained
            /\ \A i \in 1..Retained :
                  rendered[s][i] =
                      <<i - 1,
                        Scaled(Proj(s, drained[Len(drained) - Retained + i]))>>
            /\ \A i \in 1..Retained :
                  rendered[s][i][2] = Scaled(data[s][Retained + 1 - i])

\* C16 witness: a frame of two or more points was drawn.
C16_Witness ==
    /\ show_pc = "sleep"
    /\ Len(rendered.temp_normal) >= 2
    /\ Len(drained) > data.capacity

C18_SeriesAligned ==
    show_pc = "render" =>
        /\ \A s \in Series : Len(data[s]) = Retained
        /\ \A i \in 1..Retained :
              \E k \in 1..Len(drained) :
                  \A s \in Series : data[s][i] = Proj(s, drained[k])

\* C18 witness: the Renderer is about to be called with full series after
\* an eviction.
C18_Witness ==
    /\ show_pc = "render"
    /\ Len(drained) = data.capacity + 1
    /\ Len(data.humi_lowpwr) = data.capacity

\* The watcher has completed exactly when the last key event it read was
\* Ctrl-C or the end of the input; while it is waiting, only an error has
\* ended the pipeline.
WatcherDoneIffInterrupt ==
    /\ watcher = "done" <=> last_key \in {"ctrl_c", "eof"}
    /\ ended_by = "watcher" => watcher = "done"
    /\ (watcher = "waiting" /\ sup \in {"Stopping", "Stopped"})
           => exit_status = "failure"

\* The watcher completes once: after that it reads no key.
WatcherOnce == (watcher = "done") => UNCHANGED <<watcher, last_key, keys_read>>

\* C19: the watcher completes only on Ctrl-C or the end of the input, any
\* other key event or read error leaves it waiting and the pipeline
\* running, and once completed it never changes again.
C19_WatcherCompletion == []WatcherDoneIffInterrupt /\ [][WatcherOnce]_vars

\* C19 witness: the watcher read a key other than Ctrl-C and a read error
\* while the pipeline went on displaying data.
C19_Witness ==
    /\ watcher = "waiting"
    /\ keys_read = MaxKeys
    /\ last_key = "other"
    /\ sup = "Running"
    /\ Len(drained) >= 2

\* C20: with the 50 ms and 25 ms delays and a main thread that runs each
\* loop as soon as its timer is due, a publish always finds the channel
\* empty, so the channel never holds more than one pair.
C20_ChannelAtMostOne ==
    /\ Len(chan) <= 1
    /\ Len(published) - Len(drained) <= 1
    /\ poll_pc = "send" => chan = <<>>

\* C20 witness: late in the run a pair waits in the channel for the
\* consumer's timer while the main thread is parked.
C20_Witness ==
    /\ Len(published) >= 3
    /\ Len(chan) = 1
    /\ turn = "parked"
    /\ show_timer = "armed"
    /\ show_left < UI_REFRESH_DELAY

====
